---- MODULE Spec2Model ----
(***************************************************************************)
(* Model of src/server.js: the session orchestrator of editor-be.          *)
(*                                                                         *)
(* The server is one Node.js process.  Every handler runs to its next      *)
(* `await` without interruption; an action of this module is one such      *)
(* run-to-suspension piece of a handler (or a whole synchronous handler).  *)
(* execSync blocks the event loop, so a docker command issued with it is   *)
(* part of the piece that issues it.                                       *)
(***************************************************************************)
EXTENDS Integers, Sequences, FiniteSets, TLC

(***************************************************************************)
(* Bounds of the model.                                                    *)
(***************************************************************************)
\* submissions accepted (uuids generated) in one process lifetime
MaxSessions == 2
\* entries of a submitted file map
MaxFiles == 2
\* connections the socket.io server accepts in one process lifetime
MaxSockets == 2
\* 'data' events the docker processes deliver in one process lifetime
MaxChunks == 2

(***************************************************************************)
(* Program constants.                                                      *)
(***************************************************************************)
\* let nextPort = 35001
FirstPort == 35001

\* uuidv4(): the n-th identifier generated by this process
Uuid(n) == "uuid-" \o ToString(n)
Uuids == {Uuid(n) : n \in 1..MaxSessions}

\* names every object literal inherits from Object.prototype
ProtoKeys == {"constructor"}

(***************************************************************************)
(* Paths.  A path string is a sequence of tokens, "/" being the separator; *)
(* an absolute path is the sequence of its segments below the root.        *)
(***************************************************************************)
Sep == "/"
\* __dirname
DirName == <<"srv">>
TEMP_DIR == DirName \o <<"temp">>
PREVIEW_DIR == DirName \o <<"public", "previews">>

\* filePath.replace(/^\/+/, '')
RECURSIVE StripLeadingSeps(_)
StripLeadingSeps(p) ==
  IF p # <<>> /\ Head(p) = Sep THEN StripLeadingSeps(Tail(p)) ELSE p

\* path.normalize of an absolute path: "." and empty segments dropped, ".."
\* removes the segment before it (and stays at the root)
RECURSIVE Normalize(_, _)
Normalize(acc, toks) ==
  IF toks = <<>> THEN acc
  ELSE LET t == Head(toks) IN
       Normalize(IF t = Sep \/ t = "." THEN acc
                 ELSE IF t = ".."
                      THEN (IF acc = <<>> THEN acc ELSE SubSeq(acc, 1, Len(acc) - 1))
                      ELSE Append(acc, t),
                 Tail(toks))

\* path.join(dir, rel)
PathJoin(dir, rel) == Normalize(dir, rel)

IsPrefix(d, p) == Len(d) <= Len(p) /\ SubSeq(p, 1, Len(d)) = d

\* a directory path with all its ancestors (mkdir with recursive: true)
Prefixes(p) == {SubSeq(p, 1, k) : k \in 1..Len(p)}

\* path.join(TEMP_DIR, projectId)
ProjectDir(id) == PathJoin(TEMP_DIR, <<id>>)

\* the file a file-map key is written to
FullPath(id, filePath) == PathJoin(ProjectDir(id), StripLeadingSeps(filePath))

\* the key resolves outside the session's workspace root
Escapes(id, filePath) == ~IsPrefix(ProjectDir(id), FullPath(id, filePath))

(***************************************************************************)
(* Request bodies.                                                         *)
(***************************************************************************)
\* keys a caller may use in the file map of a run submission
RunPaths ==
  { <<"/", "index.js">>,
    <<"/", "..", "/", "..", "/", "server.js">> }

Contents == {"code"}

RECURSIVE SeqsUpTo(_, _)
SeqsUpTo(S, n) ==
  IF n = 0 THEN {<<>>}
  ELSE LET shorter == SeqsUpTo(S, n - 1) IN
       shorter \cup {Append(s, e) : s \in {t \in shorter : Len(t) = n - 1}, e \in S}

\* an object's own keys are distinct and keep their insertion order
DistinctKeys(entries) ==
  \A i, j \in 1..Len(entries) : i # j => entries[i].path # entries[j].path

RunFileMaps ==
  {m \in SeqsUpTo([path : RunPaths, content : Contents], MaxFiles) : DistinctKeys(m)}

\* req.body.files: an object with entries, or a value that is no object
FilesObject(entries) == [type |-> "object", entries |-> entries]
FilesMissing == [type |-> "undefined", entries |-> <<>>]
FilesString == [type |-> "string", entries |-> <<>>]

RunBodies ==
  [projectName : {"", "demo"},
   files : {FilesObject(m) : m \in RunFileMaps} \cup {FilesMissing, FilesString}]

\* !projectName || !files || typeof files !== 'object'
InvalidBody(body) ==
  \/ body.projectName = ""
  \/ body.files.type = "undefined"
  \/ body.files.type # "object"

(***************************************************************************)
(* State.                                                                  *)
(***************************************************************************)
VARIABLES
  nextPort,           \* let nextPort
  backendContainers,  \* const backendContainers: entries in insertion order
  timers,             \* the setTimeout of each run session
  uuidCount,          \* identifiers generated so far
  run,                \* each /compile-backend handler: its locals and position
  files,              \* the file system: path -> content
  dirs,               \* the file system: directories
  containers,         \* docker: the container of each run session
  stopLog,            \* docker: the `docker stop` commands issued per session
  responses,          \* the response each accepted submission received
  reply,              \* the last response of a route that creates no session
  exited,             \* process.exit() was called
  build,              \* each /compile handler: its locals and position
  previewTimers,      \* the setTimeout of each build session
  clients,            \* const clients: Map of projectId -> Set of sockets
  sockets,            \* each socket.io connection: its state and its projectId
  received,           \* the 'log' events each connected client has received, in order
  emitted,            \* broadcastLog calls made so far for each session
  chunks              \* 'data' events delivered so far by the docker processes

vars == <<nextPort, backendContainers, timers, uuidCount, run, files, dirs,
          containers, stopLog, responses, reply, exited, build, previewTimers,
          clients, sockets, received, emitted, chunks>>

\* the sessions, their resources and the answers given
sessionVars == <<nextPort, backendContainers, timers, uuidCount, run, files, dirs,
                 containers, stopLog, responses, reply, exited, build, previewTimers>>
\* the log hub and what the docker processes have written so far
hubVars == <<clients, sockets, received, emitted, chunks>>

\* what the /compile handler and its callbacks read and write of their own
buildVars == <<build, previewTimers>>
\* what only /compile-backend, its timer, the router and SIGINT write
runVars == <<nextPort, backendContainers, timers, run, containers, stopLog, reply>>

NoReply == [route |-> "none", status |-> "none", projectId |-> "", url |-> <<>>,
            port |-> 0, path |-> <<>>]
NoResponse == [status |-> "none", url |-> <<>>, details |-> <<>>, count |-> 0]
IdleRun == [pc |-> "idle", files |-> <<>>, written |-> 0, portToUse |-> 0]
NoContainer == [state |-> "absent", hostPort |-> 0]
\* dockerError is the handler's `let dockerError`; stderr is what the docker
\* process wrote on its stderr, chunk by chunk; code is its exit code
IdleBuild == [pc |-> "idle", files |-> <<>>, written |-> 0,
              dockerError |-> <<>>, stderr |-> <<>>, code |-> -1]
\* connections accepted by the socket.io server, in order of arrival
Sockets == 1..MaxSockets
\* joinedAt: the number of events already broadcast for the projectId of a
\* connected socket when it connected
NoSocket == [state |-> "none", projectId |-> "", joinedAt |-> 0]
\* new Map()
NoClients == [k \in {} |-> {}]

\* the orchestrator's own files and the directories ensureDirs() creates
InitialFiles == (DirName \o <<"server.js">>) :> "orchestrator"
InitialDirs == Prefixes(TEMP_DIR) \cup Prefixes(PREVIEW_DIR)

Init ==
  /\ nextPort = FirstPort
  /\ backendContainers = <<>>
  /\ timers = [u \in Uuids |-> "none"]
  /\ uuidCount = 0
  /\ run = [u \in Uuids |-> IdleRun]
  /\ files = InitialFiles
  /\ dirs = InitialDirs
  /\ containers = [u \in Uuids |-> NoContainer]
  /\ stopLog = [u \in Uuids |-> <<>>]
  /\ responses = [u \in Uuids |-> NoResponse]
  /\ reply = NoReply
  /\ exited = FALSE
  /\ build = [u \in Uuids |-> IdleBuild]
  /\ previewTimers = [u \in Uuids |-> "none"]
  /\ clients = NoClients
  /\ sockets = [s \in Sockets |-> NoSocket]
  /\ received = [s \in Sockets |-> <<>>]
  /\ emitted = [u \in Uuids |-> 0]
  /\ chunks = 0

(***************************************************************************)
(* File system operations.                                                 *)
(***************************************************************************)
\* fs.mkdir(dir, { recursive: true })
MkdirP(ds, dir) == ds \cup Prefixes(dir)

\* fs.writeFile(path, content)
WriteFile(fs, path, content) ==
  [p \in DOMAIN fs \cup {path} |-> IF p = path THEN content ELSE fs[p]]

\* fs.rm(dir, { recursive: true, force: true })
RmFiles(fs, dir) ==
  LET keep == {p \in DOMAIN fs : ~IsPrefix(dir, p)} IN [p \in keep |-> fs[p]]
RmDirs(ds, dir) == {d \in ds : ~IsPrefix(dir, d)}

(***************************************************************************)
(* The registry: a JavaScript object used as a map.                        *)
(***************************************************************************)
OwnKeys(obj) == {obj[i].projectId : i \in 1..Len(obj)}

OwnEntry(obj, key) == obj[CHOOSE i \in 1..Len(obj) : obj[i].projectId = key]

\* backendContainers[projectId]: an own entry, else what the prototype chain
\* holds under that name, else undefined
Lookup(obj, key) ==
  IF key \in OwnKeys(obj)
  THEN [truthy |-> TRUE, own |-> TRUE, port |-> OwnEntry(obj, key).port]
  ELSE IF key \in ProtoKeys
  THEN [truthy |-> TRUE, own |-> FALSE, port |-> 0]
  ELSE [truthy |-> FALSE, own |-> FALSE, port |-> 0]

\* faulty variant: the assignment is lost
RegistryPutDropped(obj, entry) == obj

\* backendContainers[projectId] = entry
RegistryPut(obj, entry) ==
  IF entry.projectId \in OwnKeys(obj)
  THEN [i \in 1..Len(obj) |->
          IF obj[i].projectId = entry.projectId THEN entry ELSE obj[i]]
  ELSE Append(obj, entry)

(***************************************************************************)
(* Docker.                                                                 *)
(***************************************************************************)
\* `docker stop <name>` exits 0 when the container exists; a container run
\* with --rm is removed when it stops
StopSucceeds(cs, id) == cs[id].state = "running"
AfterStop(cs, id) ==
  IF StopSucceeds(cs, id) THEN [cs EXCEPT ![id].state = "stopped"] ELSE cs
LogStop(log, cs, id, by) ==
  [log EXCEPT ![id] = Append(@, [by |-> by, ok |-> StopSucceeds(cs, id)])]

(***************************************************************************)
(* Responses.                                                              *)
(***************************************************************************)
\* res.json(...) or res.status(...).json(...) of an accepted submission
Respond(rs, id, status, url, details) ==
  [rs EXCEPT ![id] = [status |-> status, url |-> url, details |-> details,
                      count |-> @.count + 1]]

\* error.message of the exception a catch block caught
ErrorMessage == <<"error.message">>

(***************************************************************************)
(* Output of the docker processes.  A string is the sequence of its        *)
(* tokens; a chunk is the string one 'data' event carries.                 *)
(***************************************************************************)
Whitespace == {" ", "\n"}
\* chunks that are one whole line, and a chunk of nothing but whitespace
Lines == { <<"a", "\n">>, <<"b", "\n">> }
Blank == <<" ", "\n">>

\* String.prototype.trim()
RECURSIVE TrimStart(_)
TrimStart(str) ==
  IF str # <<>> /\ Head(str) \in Whitespace THEN TrimStart(Tail(str)) ELSE str
RECURSIVE TrimEnd(_)
TrimEnd(str) ==
  IF str # <<>> /\ str[Len(str)] \in Whitespace
  THEN TrimEnd(SubSeq(str, 1, Len(str) - 1))
  ELSE str
Trim(str) == TrimEnd(TrimStart(str))

(***************************************************************************)
(* The log hub (lines 15-33).                                              *)
(***************************************************************************)
\* socket.handshake.query.projectId: a session identifier, or none given
QueryIds == Uuids \cup {""}

\* if (!clients.has(projectId)) clients.set(projectId, new Set());
\* clients.get(projectId).add(socket)
ClientsAdd(c, projectId, s) ==
  IF projectId \in DOMAIN c
  THEN [c EXCEPT ![projectId] = @ \cup {s}]
  ELSE [k \in DOMAIN c \cup {projectId} |-> IF k = projectId THEN {s} ELSE c[k]]

\* faulty variant: the set is kept in the map when its last socket leaves
ClientsDeleteKeepsEmpty(c, projectId, s) == [c EXCEPT ![projectId] = @ \ {s}]

\* clients.get(projectId).delete(socket);
\* if (clients.get(projectId).size === 0) clients.delete(projectId)
ClientsDelete(c, projectId, s) ==
  IF c[projectId] \ {s} = {}
  THEN [k \in DOMAIN c \ {projectId} |-> c[k]]
  ELSE [c EXCEPT ![projectId] = @ \ {s}]

\* faulty variant: the event is put in front of what the client already has
EmitAtFront(log, event) == <<event>> \o log

\* client.emit('log', log): the socket carries its events in order
Emit(log, event) == Append(log, event)

\* faulty variant: every connected client is served, whatever its projectId
BroadcastLogToAll(rcv, c, projectId, event) ==
  [s \in Sockets |->
     IF \E k \in DOMAIN c : s \in c[k] THEN Emit(rcv[s], event) ELSE rcv[s]]

\* faulty variant: forEach is run twice over the set
BroadcastLogTwice(rcv, c, projectId, event) ==
  IF projectId \in DOMAIN c
  THEN [s \in Sockets |->
          IF s \in c[projectId] THEN Emit(Emit(rcv[s], event), event) ELSE rcv[s]]
  ELSE rcv

\* broadcastLog(projectId, log)
BroadcastLog(rcv, c, projectId, event) ==
  IF projectId \in DOMAIN c
  THEN [s \in Sockets |->
          IF s \in c[projectId] THEN Emit(rcv[s], event) ELSE rcv[s]]
  ELSE rcv

\* a call of broadcastLog for session id; `from` and `n` identify the event
\* (the session and the rank of the call), the payload is type and message
Publish(id, type, message) ==
  /\ received' = BroadcastLog(received, clients, id,
                              [from |-> id, type |-> type, message |-> message,
                               n |-> emitted[id] + 1])
  /\ emitted' = [emitted EXCEPT ![id] = @ + 1]

\* lines 17-20: io.on('connection')
Connect(s, projectId) ==
  /\ ~exited
  /\ sockets[s].state = "none"
  /\ \A t \in Sockets : t < s => sockets[t].state # "none"
  /\ IF projectId = ""
     THEN \* socket.disconnect(): no listener was registered, no set touched
          /\ sockets' = [sockets EXCEPT ![s].state = "disconnected"]
          /\ UNCHANGED clients
     ELSE /\ clients' = ClientsAdd(clients, projectId, s)
          /\ sockets' = [sockets EXCEPT
                           ![s] = [state |-> "connected", projectId |-> projectId,
                                   joinedAt |-> emitted[projectId]]]
  /\ UNCHANGED <<sessionVars, received, emitted, chunks>>

\* lines 22-25: socket.on('disconnect').  The client is gone, and with it what
\* it had received
Disconnect(s) ==
  /\ ~exited
  /\ sockets[s].state = "connected"
  /\ clients' = ClientsDelete(clients, sockets[s].projectId, s)
  /\ sockets' = [sockets EXCEPT ![s].state = "disconnected", ![s].joinedAt = 0]
  /\ received' = [received EXCEPT ![s] = <<>>]
  /\ UNCHANGED <<sessionVars, emitted, chunks>>

(***************************************************************************)
(* POST /compile-backend                                                   *)
(***************************************************************************)
\* faulty variant: the counter is read and not advanced
PortAfterAllocationStale(p) == p

\* const portToUse = nextPort++
PortAfterAllocation(p) == p + 1

\* faulty variant: the entry records the shared counter's last port instead of the
\* handler's own
RegisteredPortFromCounter(portToUse, counter) == counter - 1

\* the port a registry entry records
RegisteredPort(portToUse, counter) == portToUse

\* faulty variant: the port is taken before the body is validated
PortAfterRejectionAdvanced(p) == p + 1

\* the counter after a rejected submission: line 224 returns before line 229
PortAfterRejection(p) == p

\* faulty variant: the container is started and no timer is set for it
ArmTimerSkipped(ts, id) == ts

\* timer: setTimeout(..., 3600000) of the registry entry
ArmTimer(ts, id) == [ts EXCEPT ![id] = "armed"]

\* lines 242-285, reached with no await in between: docker build, docker run,
\* the eviction timer, the registry entry and the response
StartBackend(id, outcome) ==
  IF outcome = "ok"
  THEN /\ containers' = [containers EXCEPT
                           ![id] = [state |-> "running",
                                    hostPort |-> run[id].portToUse]]
       /\ timers' = ArmTimer(timers, id)
       /\ backendContainers' =
            RegistryPut(backendContainers,
                        [projectId |-> id,
                         port |-> RegisteredPort(run[id].portToUse, nextPort),
                         containerName |-> id])
       /\ responses' = Respond(responses, id, "200",
                                <<"previews", "backend", id, "api">>, <<>>)
       /\ UNCHANGED stopLog
  ELSE \* execSync threw: the catch block starts and suspends at fs.rm
       /\ UNCHANGED <<containers, timers, backendContainers, responses, stopLog>>

\* the handler has returned: its locals are gone; the port it was handed is
\* kept for the record
Returned(r) == [pc |-> "done", files |-> <<>>, written |-> 0, portToUse |-> r.portToUse]

\* the handler after lines 242-285: returned, or in its catch block
AfterStart(r, outcome) == IF outcome = "ok" THEN Returned(r) ELSE [r EXCEPT !.pc = "catch"]

DockerOutcomes == {"ok", "buildFailed", "runFailed"}

\* lines 222-233: validation, the session's identifiers, up to the first await
SubmitRun(body) ==
  /\ ~exited
  /\ UNCHANGED <<buildVars, hubVars>>
  /\ IF InvalidBody(body)
     THEN /\ reply' = [NoReply EXCEPT !.route = "compile-backend", !.status = "400"]
          /\ nextPort' = PortAfterRejection(nextPort)
          /\ UNCHANGED <<backendContainers, timers, uuidCount, run, files,
                         dirs, containers, stopLog, responses, exited>>
     ELSE /\ uuidCount < MaxSessions
          /\ LET id == Uuid(uuidCount + 1) IN
             /\ uuidCount' = uuidCount + 1
             /\ nextPort' = PortAfterAllocation(nextPort)
             /\ run' = [run EXCEPT ![id] = [pc |-> "mkdir",
                                            files |-> body.files.entries,
                                            written |-> 0,
                                            portToUse |-> nextPort]]
          /\ UNCHANGED <<backendContainers, timers, files, dirs, containers,
                         stopLog, responses, reply, exited>>

\* line 233: fs.mkdir(projectDir) settles
RunMkdir(id, ok, outcome) ==
  /\ ~exited
  /\ UNCHANGED <<buildVars, hubVars>>
  /\ run[id].pc = "mkdir"
  /\ IF ~ok
     THEN /\ run' = [run EXCEPT ![id].pc = "catch"]
          /\ UNCHANGED <<dirs, containers, timers, backendContainers, responses, stopLog>>
     ELSE /\ dirs' = MkdirP(dirs, ProjectDir(id))
          /\ IF run[id].files = <<>>
             THEN /\ StartBackend(id, outcome)
                  /\ run' = [run EXCEPT ![id] = AfterStart(@, outcome)]
             ELSE /\ run' = [run EXCEPT ![id].pc = "write"]
                  /\ UNCHANGED <<containers, timers, backendContainers, responses, stopLog>>
  /\ UNCHANGED <<nextPort, uuidCount, files, reply, exited>>

\* lines 235-240: the next file of the map is written (mkdir of its directory,
\* then writeFile); after the last one the handler runs on to line 285
RunWrite(id, ok, outcome) ==
  /\ ~exited
  /\ UNCHANGED <<buildVars, hubVars>>
  /\ run[id].pc = "write"
  /\ LET k == run[id].written + 1
         entry == run[id].files[k]
         fullPath == FullPath(id, entry.path)
     IN
     IF ~ok
     THEN /\ run' = [run EXCEPT ![id].pc = "catch"]
          /\ UNCHANGED <<files, dirs, containers, timers, backendContainers,
                         responses, stopLog>>
     ELSE /\ dirs' = MkdirP(dirs, SubSeq(fullPath, 1, Len(fullPath) - 1))
          /\ files' = WriteFile(files, fullPath, entry.content)
          /\ IF k = Len(run[id].files)
             THEN /\ StartBackend(id, outcome)
                  /\ run' = [run EXCEPT
                               ![id] = AfterStart([@ EXCEPT !.written = k], outcome)]
             ELSE /\ run' = [run EXCEPT ![id].written = k]
                  /\ UNCHANGED <<containers, timers, backendContainers, responses, stopLog>>
  /\ UNCHANGED <<nextPort, uuidCount, reply, exited>>

\* lines 288-295: fs.rm(projectDir) settles, then docker stop and the response
RunCatch(id) ==
  /\ ~exited
  /\ UNCHANGED <<buildVars, hubVars>>
  /\ run[id].pc = "catch"
  /\ files' = RmFiles(files, ProjectDir(id))
  /\ dirs' = RmDirs(dirs, ProjectDir(id))
  /\ stopLog' = LogStop(stopLog, containers, id, "catch")
  /\ containers' = AfterStop(containers, id)
  /\ responses' = Respond(responses, id, "500", <<>>, ErrorMessage)
  /\ run' = [run EXCEPT ![id] = Returned(@)]
  /\ UNCHANGED <<nextPort, backendContainers, timers, uuidCount, reply, exited>>

(***************************************************************************)
(* The eviction timer of a run session (lines 273-280).                    *)
(***************************************************************************)
TimerFires(id) ==
  /\ ~exited
  /\ UNCHANGED <<buildVars, hubVars>>
  /\ timers[id] = "armed"
  /\ timers' = [timers EXCEPT ![id] = "fired"]
  /\ stopLog' = LogStop(stopLog, containers, id, "timer")
  /\ containers' = AfterStop(containers, id)
  /\ UNCHANGED <<nextPort, backendContainers, uuidCount, run, files, dirs,
                 responses, reply, exited>>

\* the backend process ends by itself; docker removes the --rm container
ContainerExits(id) ==
  /\ ~exited
  /\ UNCHANGED <<buildVars, hubVars>>
  /\ containers[id].state = "running"
  /\ containers' = [containers EXCEPT ![id].state = "stopped"]
  /\ UNCHANGED <<nextPort, backendContainers, timers, uuidCount, run, files, dirs,
                 stopLog, responses, reply, exited>>

(***************************************************************************)
(* The output of `docker logs -f` of a run session (lines 249-271).        *)
(***************************************************************************)
RunLogData(id, type, chunk) ==
  /\ ~exited
  /\ containers[id].state = "running"
  /\ chunks < MaxChunks
  /\ chunks' = chunks + 1
  /\ LET message == Trim(chunk) IN
     IF message # <<>>
     THEN Publish(id, type, message)
     ELSE UNCHANGED <<received, emitted>>
  /\ UNCHANGED <<sessionVars, clients, sockets>>

\* logProcess.stdout.on('data') and logProcess.stderr.on('data')
RunLogStdout(id, chunk) == RunLogData(id, "log", chunk)
RunLogStderr(id, chunk) == RunLogData(id, "error", chunk)

(***************************************************************************)
(* The router (lines 299-316).                                             *)
(***************************************************************************)
\* Express matches a mount path without regard to case
Lower(s) == IF s = "PREVIEWS" THEN "previews" ELSE s

SubPaths == {<<>>, <<"widgets">>}
RequestKeys == Uuids \cup ProtoKeys
RoutedUrls ==
  {<<p, "backend", k, "api">> \o sub :
     p \in {"previews", "PREVIEWS"}, k \in RequestKeys, sub \in SubPaths}

\* the mount path '/previews/backend/:projectId/api' matches the url
Mounted(url) ==
  /\ Len(url) >= 4
  /\ Lower(url[1]) = "previews"
  /\ url[2] = "backend"
  /\ url[4] = "api"

\* `/previews/backend/${projectId}/api`
Prefix(projectId) == <<"previews", "backend", projectId, "api">>

\* req.originalUrl.startsWith(prefix) ? req.originalUrl.slice(prefix.length) : ''
RestOfPath(url, projectId) ==
  IF IsPrefix(Prefix(projectId), url) THEN SubSeq(url, 5, Len(url)) ELSE <<>>

\* '/api' + restOfPath
TargetPath(url, projectId) == <<"api">> \o RestOfPath(url, projectId)

\* faulty variant: the target resolved for the first session is kept for every request
TargetPortCached(obj, projectId) == IF Len(obj) > 0 THEN obj[1].port ELSE 0

\* info.port of the entry resolved for this request
TargetPort(obj, projectId) == Lookup(obj, projectId).port

Route(url) ==
  /\ ~exited
  /\ UNCHANGED <<buildVars, hubVars>>
  /\ Mounted(url)
  /\ LET projectId == url[3]
         info == Lookup(backendContainers, projectId)
     IN
     reply' = IF ~info.truthy
              THEN [NoReply EXCEPT !.route = "proxy", !.status = "404",
                                   !.projectId = projectId, !.url = url]
              ELSE [route |-> "proxy", status |-> "forwarded",
                    projectId |-> projectId, url |-> url,
                    port |-> TargetPort(backendContainers, projectId),
                    path |-> TargetPath(url, projectId)]
  /\ UNCHANGED <<nextPort, backendContainers, timers, uuidCount, run, files, dirs,
                 containers, stopLog, responses, exited>>

(***************************************************************************)
(* SIGINT (lines 318-332).                                                 *)
(***************************************************************************)
\* faulty variant: the try block encloses the loop, so the first failing stop ends it
RECURSIVE SweepEndsAtFailure(_, _, _)
SweepEndsAtFailure(obj, i, st) ==
  IF i > Len(obj) THEN st
  ELSE LET id == obj[i].containerName
           after == [timers |-> [st.timers EXCEPT
                                   ![id] = IF @ = "armed" THEN "cleared" ELSE @],
                     stopLog |-> LogStop(st.stopLog, st.containers, id, "sigint"),
                     containers |-> AfterStop(st.containers, id)]
       IN IF StopSucceeds(st.containers, id)
          THEN SweepEndsAtFailure(obj, i + 1, after)
          ELSE after

\* the body of the for-in loop, applied to the entries from index i on
RECURSIVE Sweep(_, _, _)
Sweep(obj, i, st) ==
  IF i > Len(obj) THEN st
  ELSE LET id == obj[i].containerName IN
       Sweep(obj, i + 1,
             [timers |-> [st.timers EXCEPT
                            ![id] = IF @ = "armed" THEN "cleared" ELSE @],
              stopLog |-> LogStop(st.stopLog, st.containers, id, "sigint"),
              containers |-> AfterStop(st.containers, id)])

Sigint ==
  /\ ~exited
  /\ UNCHANGED <<buildVars, hubVars>>
  /\ LET st == Sweep(backendContainers, 1,
                     [timers |-> timers, stopLog |-> stopLog,
                      containers |-> containers])
     IN /\ timers' = st.timers
        /\ stopLog' = st.stopLog
        /\ containers' = st.containers
  /\ exited' = TRUE
  /\ UNCHANGED <<nextPort, backendContainers, uuidCount, run, files, dirs,
                 responses, reply>>

(***************************************************************************)
(* Specification of the run sessions, their eviction and shutdown.         *)
(***************************************************************************)
Next ==
  \/ \E body \in RunBodies : SubmitRun(body)
  \/ \E id \in Uuids, ok \in BOOLEAN, outcome \in DockerOutcomes : RunMkdir(id, ok, outcome)
  \/ \E id \in Uuids, ok \in BOOLEAN, outcome \in DockerOutcomes : RunWrite(id, ok, outcome)
  \/ \E id \in Uuids : RunCatch(id)
  \/ \E id \in Uuids : TimerFires(id)
  \/ \E id \in Uuids : ContainerExits(id)
  \/ Sigint

Spec == Init /\ [][Next]_vars

(***************************************************************************)
(* Specification of the router: the same run sessions, submitted with one  *)
(* file, and requests routed to them at any moment.                        *)
(***************************************************************************)
RoutedBodies ==
  [projectName : {"demo"},
   files : {FilesObject(<<[path |-> <<"/", "index.js">>, content |-> "code"]>>)}]

NextRoute ==
  \/ \E body \in RoutedBodies : SubmitRun(body)
  \/ \E id \in Uuids, ok \in BOOLEAN, outcome \in DockerOutcomes : RunMkdir(id, ok, outcome)
  \/ \E id \in Uuids, ok \in BOOLEAN, outcome \in DockerOutcomes : RunWrite(id, ok, outcome)
  \/ \E id \in Uuids : RunCatch(id)
  \/ \E id \in Uuids : TimerFires(id)
  \/ \E id \in Uuids : ContainerExits(id)
  \/ \E url \in RoutedUrls : Route(url)
  \/ Sigint

SpecRoute == Init /\ [][NextRoute]_vars

(***************************************************************************)
(* POST /compile                                                           *)
(***************************************************************************)
\* keys a caller may use in the file map of a build submission
BuildPaths ==
  { <<"/", "pubspec.yaml">>,
    <<"pubspec.yaml">>,
    <<"/", "lib", "/", "main.dart">> }

BuildFileMaps ==
  {m \in SeqsUpTo([path : BuildPaths, content : Contents], MaxFiles) : DistinctKeys(m)}

BuildBodies ==
  [projectName : {"", "demo"},
   files : {FilesObject(m) : m \in BuildFileMaps} \cup {FilesMissing, FilesString}]

\* path.join(PREVIEW_DIR, projectId)
PreviewDir(id) == PathJoin(PREVIEW_DIR, <<id>>)
\* path.join(projectDir, 'pubspec.yaml')
PubspecPath(id) == PathJoin(ProjectDir(id), <<"pubspec.yaml">>)
\* path.join(projectDir, 'web') and its index.html
WebDir(id) == PathJoin(ProjectDir(id), <<"web">>)
IndexHtmlPath(id) == PathJoin(WebDir(id), <<"index.html">>)
\* path.join(projectDir, 'build', 'web'), and what flutter leaves in it
BuiltDir(id) == PathJoin(ProjectDir(id), <<"build", "/", "web">>)
BuiltFile(id) == PathJoin(BuiltDir(id), <<"main.dart.js">>)

\* PUBSPEC_YAML.trim() and DEFAULT_INDEX_HTML
DefaultPubspec == "default pubspec"
DefaultIndexHtml == "default index.html"

\* files['/pubspec.yaml'] is truthy: the key is present with non-empty content
ManifestSupplied(entries) ==
  \E k \in 1..Len(entries) :
    entries[k].path = <<"/", "pubspec.yaml">> /\ entries[k].content # ""

\* fs.rename(from, to): the directory and all below it move
MovedPath(p, from, to) == to \o SubSeq(p, Len(from) + 1, Len(p))

\* faulty variant: the rename resolves and has moved nothing
RenameFilesNowhere(fs, from, to) == fs

RenameFiles(fs, from, to) ==
  LET stay == {p \in DOMAIN fs : ~IsPrefix(from, p)}
      moved == {p \in DOMAIN fs : IsPrefix(from, p)}
      dom == stay \cup {MovedPath(p, from, to) : p \in moved}
  IN [q \in dom |->
        IF \E p \in moved : MovedPath(p, from, to) = q
        THEN fs[CHOOSE p \in moved : MovedPath(p, from, to) = q]
        ELSE fs[q]]
RenameDirs(ds, from, to) ==
  {d \in ds : ~IsPrefix(from, d)} \cup Prefixes(to)
    \cup {MovedPath(d, from, to) : d \in {e \in ds : IsPrefix(from, e)}}

\* where the handler goes on once the file map is written (line 106)
PcAfterFiles(entries) == IF ManifestSupplied(entries) THEN "web" ELSE "pubspec"

\* lines 75-87: validation, the session's identifier, up to the first await
SubmitBuild(body) ==
  /\ ~exited
  /\ UNCHANGED <<nextPort, backendContainers, timers, run, containers, stopLog>>
  /\ UNCHANGED hubVars
  /\ IF InvalidBody(body)
     THEN /\ reply' = [NoReply EXCEPT !.route = "compile", !.status = "400"]
          /\ UNCHANGED <<uuidCount, files, dirs, responses, exited, build, previewTimers>>
     ELSE /\ uuidCount < MaxSessions
          /\ LET id == Uuid(uuidCount + 1) IN
             /\ uuidCount' = uuidCount + 1
             /\ build' = [build EXCEPT ![id] = [IdleBuild EXCEPT
                                                  !.pc = "mkdir",
                                                  !.files = body.files.entries]]
          /\ UNCHANGED <<files, dirs, responses, reply, exited, previewTimers>>

\* lines 87-88: fs.mkdir(projectDir) and its chmod settle
BuildMkdir(id, ok) ==
  /\ ~exited
  /\ build[id].pc = "mkdir"
  /\ IF ~ok
     THEN /\ build' = [build EXCEPT ![id].pc = "catch"]
          /\ UNCHANGED dirs
     ELSE /\ dirs' = MkdirP(dirs, ProjectDir(id))
          /\ build' = [build EXCEPT
                         ![id].pc = IF build[id].files = <<>>
                                    THEN PcAfterFiles(build[id].files)
                                    ELSE "write"]
  /\ UNCHANGED <<uuidCount, files, responses, exited, previewTimers>>
  /\ UNCHANGED <<runVars, hubVars>>

\* lines 90-103: the next file of the map is written and verified
BuildWrite(id, ok) ==
  /\ ~exited
  /\ build[id].pc = "write"
  /\ LET k == build[id].written + 1
         entry == build[id].files[k]
         fullPath == FullPath(id, entry.path)
     IN
     IF ~ok
     THEN /\ build' = [build EXCEPT ![id].pc = "catch"]
          /\ UNCHANGED <<files, dirs>>
     ELSE /\ dirs' = MkdirP(dirs, SubSeq(fullPath, 1, Len(fullPath) - 1))
          /\ files' = WriteFile(files, fullPath, entry.content)
          /\ build' = [build EXCEPT
                         ![id].written = k,
                         ![id].pc = IF k = Len(build[id].files)
                                    THEN PcAfterFiles(build[id].files)
                                    ELSE "write"]
  /\ UNCHANGED <<uuidCount, responses, exited, previewTimers>>
  /\ UNCHANGED <<runVars, hubVars>>

\* lines 105-111: the default manifest is written
BuildPubspec(id, ok) ==
  /\ ~exited
  /\ build[id].pc = "pubspec"
  /\ IF ~ok
     THEN /\ build' = [build EXCEPT ![id].pc = "catch"]
          /\ UNCHANGED files
     ELSE /\ files' = WriteFile(files, PubspecPath(id), DefaultPubspec)
          /\ build' = [build EXCEPT ![id].pc = "web"]
  /\ UNCHANGED <<uuidCount, dirs, responses, exited, previewTimers>>
  /\ UNCHANGED <<runVars, hubVars>>

\* lines 113-138: the web directory, and index.html unless it exists
BuildWeb(id, ok) ==
  /\ ~exited
  /\ build[id].pc = "web"
  /\ IF ~ok
     THEN /\ build' = [build EXCEPT ![id].pc = "catch"]
          /\ UNCHANGED <<files, dirs>>
     ELSE /\ dirs' = MkdirP(dirs, WebDir(id))
          /\ files' = IF IndexHtmlPath(id) \in DOMAIN files
                      THEN files
                      ELSE WriteFile(files, IndexHtmlPath(id), DefaultIndexHtml)
          /\ build' = [build EXCEPT ![id].pc = "list"]
  /\ UNCHANGED <<uuidCount, responses, exited, previewTimers>>
  /\ UNCHANGED <<runVars, hubVars>>

\* lines 140-150: printDir settles (it never rejects) and docker is spawned
BuildSpawn(id) ==
  /\ ~exited
  /\ build[id].pc = "list"
  /\ build' = [build EXCEPT ![id].pc = "building"]
  /\ UNCHANGED <<uuidCount, files, dirs, responses, exited, previewTimers>>
  /\ UNCHANGED <<runVars, hubVars>>

\* faulty variant: `=` where the handler has `+=`
AppendStderrOverwrites(dockerError, message) == message \o <<"\n">>

\* dockerError += message + '\n'
AppendStderr(dockerError, message) == dockerError \o message \o <<"\n">>

\* lines 153-163: dockerProcess.stdout.on('data')
BuildStdout(id, chunk) ==
  /\ ~exited
  /\ build[id].pc = "building"
  /\ chunks < MaxChunks
  /\ chunks' = chunks + 1
  /\ LET message == Trim(chunk) IN
     IF message # <<>>
     THEN Publish(id, "log", message)
     ELSE UNCHANGED <<received, emitted>>
  /\ UNCHANGED <<sessionVars, clients, sockets>>

\* lines 165-176: dockerProcess.stderr.on('data')
BuildStderr(id, chunk) ==
  /\ ~exited
  /\ build[id].pc = "building"
  /\ chunks < MaxChunks
  /\ chunks' = chunks + 1
  /\ LET message == Trim(chunk) IN
     IF message # <<>>
     THEN /\ build' = [build EXCEPT
                         ![id].stderr = Append(@, chunk),
                         ![id].dockerError = AppendStderr(@, message)]
          /\ Publish(id, "error", message)
     ELSE /\ build' = [build EXCEPT ![id].stderr = Append(@, chunk)]
          /\ UNCHANGED <<received, emitted>>
  /\ UNCHANGED <<uuidCount, files, dirs, responses, exited, previewTimers>>
  /\ UNCHANGED <<runVars, clients, sockets>>

\* `Docker process exited with code ${code}`
ExitMessage(code) == <<"Docker process exited with code ", ToString(code)>>

\* details: dockerError || errorMessage
Details(dockerError, code) ==
  IF dockerError # <<>> THEN dockerError ELSE ExitMessage(code)

\* lines 178-188: the docker process closes.  `produced` says whether it left
\* build/web behind; a process that exits 0 has.  The handler's dockerError is
\* gone once it has answered; what the process wrote is of no use after exit 0
BuildClose(id, code, produced) ==
  /\ ~exited
  /\ build[id].pc = "building"
  /\ code = 0 => produced
  /\ files' = IF produced THEN WriteFile(files, BuiltFile(id), "compiled") ELSE files
  /\ dirs' = IF produced THEN MkdirP(dirs, BuiltDir(id)) ELSE dirs
  /\ IF code # 0
     THEN /\ Publish(id, "error", ExitMessage(code))
          /\ responses' = Respond(responses, id, "500", <<>>,
                                  Details(build[id].dockerError, code))
          /\ build' = [build EXCEPT ![id].pc = "done", ![id].code = code,
                                    ![id].dockerError = <<>>]
     ELSE /\ build' = [build EXCEPT ![id].pc = "rename", ![id].code = code,
                                    ![id].dockerError = <<>>, ![id].stderr = <<>>]
          /\ UNCHANGED <<responses, received, emitted>>
  /\ UNCHANGED <<uuidCount, exited, previewTimers>>
  /\ UNCHANGED <<runVars, clients, sockets, chunks>>

\* line 191: fs.rename(build/web, previewDir) settles
BuildRename(id, ok) ==
  /\ ~exited
  /\ build[id].pc = "rename"
  /\ IF ~ok
     THEN /\ build' = [build EXCEPT ![id].pc = "postCatch"]
          /\ UNCHANGED <<files, dirs>>
     ELSE /\ files' = RenameFiles(files, BuiltDir(id), PreviewDir(id))
          /\ dirs' = RenameDirs(dirs, BuiltDir(id), PreviewDir(id))
          /\ build' = [build EXCEPT ![id].pc = "rm"]
  /\ UNCHANGED <<uuidCount, responses, exited, previewTimers>>
  /\ UNCHANGED <<runVars, hubVars>>

\* lines 192-204: fs.rm(projectDir) settles, the timer is armed, the response sent
BuildRm(id, ok) ==
  /\ ~exited
  /\ build[id].pc = "rm"
  /\ IF ~ok
     THEN /\ build' = [build EXCEPT ![id].pc = "postCatch"]
          /\ UNCHANGED <<files, dirs, previewTimers, responses>>
     ELSE /\ files' = RmFiles(files, ProjectDir(id))
          /\ dirs' = RmDirs(dirs, ProjectDir(id))
          /\ previewTimers' = [previewTimers EXCEPT ![id] = "armed"]
          /\ responses' = Respond(responses, id, "200",
                                   <<"previews", id, "index.html">>, <<>>)
          /\ build' = [build EXCEPT ![id].pc = "done"]
  /\ UNCHANGED <<uuidCount, exited>>
  /\ UNCHANGED <<runVars, hubVars>>

\* lines 205-210 and 212-218: both catch blocks remove the workspace and the
\* preview directory and answer 500
BuildCatch(id) ==
  /\ ~exited
  /\ build[id].pc \in {"catch", "postCatch"}
  /\ files' = RmFiles(RmFiles(files, ProjectDir(id)), PreviewDir(id))
  /\ dirs' = RmDirs(RmDirs(dirs, ProjectDir(id)), PreviewDir(id))
  /\ responses' = Respond(responses, id, "500", <<>>, ErrorMessage)
  /\ build' = [build EXCEPT ![id].pc = "done"]
  /\ UNCHANGED <<uuidCount, exited, previewTimers>>
  /\ UNCHANGED <<runVars, hubVars>>

\* lines 194-201: the eviction timer of a build session
PreviewTimerFires(id) ==
  /\ ~exited
  /\ previewTimers[id] = "armed"
  /\ previewTimers' = [previewTimers EXCEPT ![id] = "fired"]
  /\ files' = RmFiles(files, PreviewDir(id))
  /\ dirs' = RmDirs(dirs, PreviewDir(id))
  /\ UNCHANGED <<uuidCount, responses, exited, build>>
  /\ UNCHANGED <<runVars, hubVars>>

(***************************************************************************)
(* Specification of the build sessions.                                    *)
(***************************************************************************)
NextBuild ==
  \/ \E body \in BuildBodies : SubmitBuild(body)
  \/ \E id \in Uuids, ok \in BOOLEAN : BuildMkdir(id, ok)
  \/ \E id \in Uuids, ok \in BOOLEAN : BuildWrite(id, ok)
  \/ \E id \in Uuids, ok \in BOOLEAN : BuildPubspec(id, ok)
  \/ \E id \in Uuids, ok \in BOOLEAN : BuildWeb(id, ok)
  \/ \E id \in Uuids : BuildSpawn(id)
  \/ \E id \in Uuids, code \in {0, 1}, produced \in BOOLEAN : BuildClose(id, code, produced)
  \/ \E id \in Uuids, ok \in BOOLEAN : BuildRename(id, ok)
  \/ \E id \in Uuids, ok \in BOOLEAN : BuildRm(id, ok)
  \/ \E id \in Uuids : BuildCatch(id)
  \/ \E id \in Uuids : PreviewTimerFires(id)
  \/ Sigint

SpecBuild == Init /\ [][NextBuild]_vars

(***************************************************************************)
(* Specification of the preview timer: builds submitted with one source    *)
(* file, every file operation failing or not, the exit code of docker, the *)
(* timer and shutdown.                                                     *)
(***************************************************************************)
OneFileBodies ==
  [projectName : {"demo"},
   files : {FilesObject(<<[path |-> <<"/", "lib", "/", "main.dart">>,
                           content |-> "code"]>>)}]

NextPreview ==
  \/ \E body \in OneFileBodies : SubmitBuild(body)
  \/ \E id \in Uuids, ok \in BOOLEAN : BuildMkdir(id, ok)
  \/ \E id \in Uuids, ok \in BOOLEAN : BuildWrite(id, ok)
  \/ \E id \in Uuids, ok \in BOOLEAN : BuildPubspec(id, ok)
  \/ \E id \in Uuids, ok \in BOOLEAN : BuildWeb(id, ok)
  \/ \E id \in Uuids : BuildSpawn(id)
  \/ \E id \in Uuids, code \in {0, 1}, produced \in BOOLEAN : BuildClose(id, code, produced)
  \/ \E id \in Uuids, ok \in BOOLEAN : BuildRename(id, ok)
  \/ \E id \in Uuids, ok \in BOOLEAN : BuildRm(id, ok)
  \/ \E id \in Uuids : BuildCatch(id)
  \/ \E id \in Uuids : PreviewTimerFires(id)
  \/ Sigint

SpecPreview == Init /\ [][NextPreview]_vars

(***************************************************************************)
(* Specification of the docker process of a build session: what it writes  *)
(* on stderr, its exit, and what the close handler does with both.  The    *)
(* workspace is prepared without failure; a process that exits non-zero    *)
(* leaves no build/web behind.                                             *)
(***************************************************************************)
NextClose ==
  \/ \E body \in OneFileBodies : SubmitBuild(body)
  \/ \E id \in Uuids : BuildMkdir(id, TRUE)
  \/ \E id \in Uuids : BuildWrite(id, TRUE)
  \/ \E id \in Uuids : BuildPubspec(id, TRUE)
  \/ \E id \in Uuids : BuildWeb(id, TRUE)
  \/ \E id \in Uuids : BuildSpawn(id)
  \/ \E id \in Uuids, chunk \in Lines \cup {Blank} : BuildStderr(id, chunk)
  \/ \E id \in Uuids, code \in {0, 1} : BuildClose(id, code, code = 0)
  \/ \E id \in Uuids, ok \in BOOLEAN : BuildRename(id, ok)
  \/ \E id \in Uuids, ok \in BOOLEAN : BuildRm(id, ok)
  \/ \E id \in Uuids : BuildCatch(id)

SpecClose == Init /\ [][NextClose]_vars

(***************************************************************************)
(* Specification of the log hub with the run sessions as its sources:      *)
(* clients connect and disconnect at any moment while containers, started  *)
(* from an empty file map without failure, write on their streams.         *)
(***************************************************************************)
EmptyBodies == [projectName : {"demo"}, files : {FilesObject(<<>>)}]
LogChunks == { <<"a", "\n">>, Blank }

NextHub ==
  \/ \E s \in Sockets, projectId \in QueryIds : Connect(s, projectId)
  \/ \E s \in Sockets : Disconnect(s)
  \/ \E body \in EmptyBodies : SubmitRun(body)
  \/ \E id \in Uuids : RunMkdir(id, TRUE, "ok")
  \/ \E id \in Uuids, chunk \in LogChunks : RunLogStdout(id, chunk)
  \/ \E id \in Uuids, chunk \in LogChunks : RunLogStderr(id, chunk)

SpecHub == Init /\ [][NextHub]_vars

(***************************************************************************)
(* Specification of the log hub: clients connect and disconnect at any     *)
(* moment while build and run sessions, submitted with one file and        *)
(* prepared without failure, write on their streams.                       *)
(***************************************************************************)

NextLog ==
  \/ \E s \in Sockets, projectId \in QueryIds : Connect(s, projectId)
  \/ \E s \in Sockets : Disconnect(s)
  \/ \E body \in OneFileBodies : SubmitBuild(body)
  \/ \E id \in Uuids : BuildMkdir(id, TRUE)
  \/ \E id \in Uuids : BuildWrite(id, TRUE)
  \/ \E id \in Uuids : BuildPubspec(id, TRUE)
  \/ \E id \in Uuids : BuildWeb(id, TRUE)
  \/ \E id \in Uuids : BuildSpawn(id)
  \/ \E id \in Uuids, chunk \in LogChunks : BuildStdout(id, chunk)
  \/ \E id \in Uuids, chunk \in LogChunks : BuildStderr(id, chunk)
  \/ \E id \in Uuids, code \in {0, 1} : BuildClose(id, code, code = 0)
  \/ \E body \in RoutedBodies : SubmitRun(body)
  \/ \E id \in Uuids : RunMkdir(id, TRUE, "ok")
  \/ \E id \in Uuids : RunWrite(id, TRUE, "ok")
  \/ \E id \in Uuids, chunk \in LogChunks : RunLogStdout(id, chunk)
  \/ \E id \in Uuids, chunk \in LogChunks : RunLogStderr(id, chunk)

SpecLog == Init /\ [][NextLog]_vars

(***************************************************************************)
(* Properties of the run sessions, the router and shutdown.                *)
(***************************************************************************)
Accepted == {id \in Uuids : run[id].pc # "idle"}
InFlight == {id \in Uuids : run[id].pc \in {"mkdir", "write", "catch"}}
StopsBy(id, who) == {k \in 1..Len(stopLog[id]) : stopLog[id][k].by \in who}

\* C1: no two accepted submissions, in flight or finished, failed or not, were
\* handed the same port
C1_DistinctPorts ==
  \A a, b \in Accepted : a # b => run[a].portToUse # run[b].portToUse

\* two submissions are in flight at once, each holding its port
C1_Witness ==
  \E a, b \in InFlight : a # b /\ run[a].portToUse # 0 /\ run[b].portToUse # 0

\* C2 (as claimed): once the eviction timer of a session has fired, a lookup of
\* that session finds nothing
C2_EvictedIsNotFound ==
  \A id \in Uuids : timers[id] = "fired" => ~Lookup(backendContainers, id).truthy

\* C3 (as claimed): the eviction triggers (timer, shutdown sweep) together issue
\* at most one stop against a session's process
C3_StoppedOnce ==
  \A id \in Uuids : Cardinality(StopsBy(id, {"timer", "sigint"})) <= 1

\* C4: a session whose url was returned is in the registry with the port its
\* container is bound to, and every port a lookup returns is that of a started
\* container whose handler has finished
C4_NoPrematureVisibility ==
  /\ \A id \in Uuids :
       responses[id].status = "200" =>
         /\ id \in OwnKeys(backendContainers)
         /\ containers[id].state # "absent"
         /\ Lookup(backendContainers, id).port = containers[id].hostPort
  /\ \A id \in OwnKeys(backendContainers) :
       /\ run[id].pc = "done"
       /\ containers[id].state # "absent"
       /\ Lookup(backendContainers, id).port = containers[id].hostPort

\* one session is advertised while another is still being materialized
C4_Witness ==
  \E a, b \in Uuids :
    /\ responses[a].status = "200"
    /\ run[b].pc = "write"
    /\ ~Lookup(backendContainers, b).truthy

\* C5: after shutdown every registered session was issued a stop by the sweep,
\* none of their processes is left running and none of their timers is armed
C5_ShutdownSweepsAll ==
  exited =>
    \A id \in OwnKeys(backendContainers) :
      /\ StopsBy(id, {"sigint"}) # {}
      /\ containers[id].state # "running"
      /\ timers[id] # "armed"

\* the sweep's stop of the first registered session failed and the session
\* registered after it was stopped all the same
C5_Witness ==
  /\ exited
  /\ Len(backendContainers) >= 2
  /\ LET a == backendContainers[1].projectId
         b == backendContainers[2].projectId
     IN /\ \E k \in StopsBy(a, {"sigint"}) : ~stopLog[a][k].ok
        /\ \E k \in StopsBy(b, {"sigint"}) : stopLog[b][k].ok

\* a directory, or anything below it, is on disk
OnDisk(dir) == dir \in dirs \/ \E p \in DOMAIN files : IsPrefix(dir, p)

\* C6 (as claimed): a submission answered with a failure has left nothing
\* behind: neither its workspace directory nor its preview directory exists
C6_FailureLeavesNothing ==
  \A id \in Uuids :
    responses[id].status = "500" => ~OnDisk(ProjectDir(id)) /\ ~OnDisk(PreviewDir(id))

\* C7 (as claimed): a handler whose file map has a key that resolves outside
\* its workspace has written no file of the map
C7_TraversalRejected ==
  \A id \in Accepted :
    (\E k \in 1..Len(run[id].files) : Escapes(id, run[id].files[k].path)) =>
      run[id].written = 0

\* C8 (as claimed): a routed request for a session id with no registry entry is
\* answered 404 and forwarded nowhere
C8_UnregisteredIsNotFound ==
  (reply.route = "proxy" /\ reply.projectId \notin OwnKeys(backendContainers)) =>
    reply.status = "404"

\* C9: a request for a registered session is forwarded to that session's
\* registered port, to no other session's port, and a request addressed to
\* url + subPath goes to "/api" + subPath
C9_ForwardsToOwnPort ==
  reply.status = "forwarded" =>
    /\ reply.projectId \in OwnKeys(backendContainers) =>
         reply.port = OwnEntry(backendContainers, reply.projectId).port
    /\ \A i \in 1..Len(backendContainers) :
         backendContainers[i].projectId # reply.projectId =>
           backendContainers[i].port # reply.port
    /\ IsPrefix(Prefix(reply.projectId), reply.url) =>
         reply.path = <<"api">> \o SubSeq(reply.url, 5, Len(reply.url))

\* with two sessions registered, a request for the second one's
\* url + "/widgets" was forwarded
C9_Witness ==
  /\ Len(backendContainers) >= 2
  /\ reply.status = "forwarded"
  /\ reply.projectId = backendContainers[2].projectId
  /\ reply.url = Prefix(reply.projectId) \o <<"widgets">>
  /\ reply.path = <<"api", "widgets">>

\* C10: the registry holds one entry per session id and no port twice
C10_RegistryUnique ==
  \A i, j \in 1..Len(backendContainers) :
    i # j => /\ backendContainers[i].projectId # backendContainers[j].projectId
             /\ backendContainers[i].port # backendContainers[j].port

\* two sessions are registered
C10_Witness == Len(backendContainers) >= 2

\* C11: a step that answers a submission with 400 changes nothing but that
\* answer: no identifier is generated, the port counter, the registry, the
\* disk, the containers, the timers and the handlers stay as they were
C11_RejectionHasNoEffect ==
  [][(reply' # reply /\ reply'.status = "400") =>
       UNCHANGED <<nextPort, backendContainers, timers, uuidCount, run, files, dirs,
                   containers, stopLog, responses, exited, build, previewTimers,
                   hubVars>>]_vars

\* a submission was rejected while another one was in flight, and the counter
\* still stands right after the ports handed out
C11_Witness ==
  /\ reply.status = "400"
  /\ InFlight # {}
  /\ nextPort = FirstPort + Cardinality(Accepted)

\* C12: once the eviction of a registered run session has run (its timer
\* fired, or the shutdown sweep ended the server), the session is reclaimed:
\* its container is stopped, its workspace directory is gone from the disk,
\* and a server that is still up no longer holds its registry entry
C12_EvictedIsReclaimed ==
  \A id \in Uuids :
    (responses[id].status = "200" /\ responses[id].url[2] = "backend"
       /\ (timers[id] = "fired" \/ exited)) =>
      /\ containers[id].state # "running"
      /\ ~OnDisk(ProjectDir(id))
      /\ (~exited => id \notin OwnKeys(backendContainers))

ManifestEntries(id) ==
  {k \in 1..Len(build[id].files) :
     FullPath(id, build[id].files[k].path) = PubspecPath(id)}

\* the build has passed the manifest step and its workspace is still in place
ManifestSettled(id) == build[id].pc \in {"web", "list", "building"}

\* C16 (as claimed): once the manifest step is passed, the workspace holds the
\* caller's manifest, verbatim, if the file map had an entry that lands on
\* pubspec.yaml, and the default manifest if it had none
C16_ManifestPreserved ==
  \A id \in Uuids :
    ManifestSettled(id) =>
      IF ManifestEntries(id) # {}
      THEN \E k \in ManifestEntries(id) :
             files[PubspecPath(id)] = build[id].files[k].content
      ELSE files[PubspecPath(id)] = DefaultPubspec

\* where the compiled file of a build is served from once it is relocated
PublishedFile(id) == MovedPath(BuiltFile(id), BuiltDir(id), PreviewDir(id))

RECURSIVE TextOf(_)
TextOf(chunkSeq) ==
  IF chunkSeq = <<>> THEN <<>>
  ELSE (IF \A k \in 1..Len(Head(chunkSeq)) : Head(chunkSeq)[k] \in Whitespace
        THEN <<>>
        ELSE Head(chunkSeq)) \o TextOf(Tail(chunkSeq))

Bound == {s \in Sockets : sockets[s].state # "none" /\ sockets[s].projectId # ""}
\* the connections that came without a projectId
Unbound == {s \in Sockets : sockets[s].state # "none" /\ sockets[s].projectId = ""}
Positions(s) == 1..Len(received[s])

\* C13: of two events of the same stream of the same session that reached a
\* client, the one broadcast first was delivered first
C13_DeliveredInOrder ==
  \A s \in Sockets : \A i, j \in Positions(s) :
    (i < j /\ received[s][i].from = received[s][j].from
           /\ received[s][i].type = received[s][j].type) =>
      received[s][i].n < received[s][j].n

\* a client holds two events of one stream of its session
C13_Witness ==
  \E s \in Sockets : \E i, j \in Positions(s) :
    /\ i < j
    /\ received[s][i].from = received[s][j].from
    /\ received[s][i].type = received[s][j].type
    /\ received[s][i].message = Trim(<<"a", "\n">>)
    /\ received[s][j].message = Trim(<<"a", "\n">>)

\* C14: a client holds no event twice, and holds no event that was broadcast
\* before it connected; a connection that was never accepted into a set holds
\* nothing
C14_AtMostOnceNoReplay ==
  \A s \in Sockets :
    /\ \A i, j \in Positions(s) :
         (i # j /\ received[s][i].from = received[s][j].from) =>
           received[s][i].n # received[s][j].n
    /\ \A i \in Positions(s) : received[s][i].n > sockets[s].joinedAt
    /\ s \notin Bound => received[s] = <<>>

\* the first event of a session was broadcast when no client had named that
\* session; the one client that named it since holds a later event
C14_Witness ==
  \E s \in Bound :
    /\ sockets[s].joinedAt > 0
    /\ received[s] # <<>>
    /\ \A t \in Sockets \ {s} : sockets[t].projectId # sockets[s].projectId

\* C15: a connected client is in the set of the projectId it connected with
\* and in no other set, a client that is not connected is in no set, and the
\* map holds no empty set
C15_ObserverSets ==
  /\ \A s \in Sockets : \A k \in DOMAIN clients :
       s \in clients[k] <=> (sockets[s].state = "connected" /\ sockets[s].projectId = k)
  /\ \A s \in Sockets :
       sockets[s].state = "connected" => sockets[s].projectId \in DOMAIN clients
  /\ \A k \in DOMAIN clients : clients[k] # {}

\* the last client of one session has left and the set of that session is
\* gone, while a client of another session is still in its set
C15_Witness ==
  /\ \E s \in Bound :
       sockets[s].state = "disconnected" /\ sockets[s].projectId \notin DOMAIN clients
  /\ \E t \in Bound : sockets[t].state = "connected"

\* C19: every event a client holds was broadcast for the projectId the client
\* connected with, and a connection without a projectId is disconnected, is in
\* no set and holds no event
C19_Isolated ==
  /\ \A s \in Bound : \A i \in Positions(s) : received[s][i].from = sockets[s].projectId
  /\ \A s \in Unbound :
       /\ sockets[s].state = "disconnected"
       /\ received[s] = <<>>
       /\ \A k \in DOMAIN clients : s \notin clients[k]

\* events were broadcast for two sessions, a client of one of them holds an
\* event, and a connection without a projectId was turned away
C19_Witness ==
  /\ \E s \in Bound : \E id \in Uuids :
       /\ received[s] # <<>>
       /\ id # sockets[s].projectId
       /\ emitted[id] > 0
  /\ Unbound # {}

====
